---- MODULE Spec2Model ----
(***************************************************************************)
(* Model of the card protocol engine of src/lol.py:                        *)
(*   SmartCardConnection (connect / transmit / disconnect),                *)
(*   SmartCardReader (_get_data_with_get_response, _read_field,            *)
(*   _read_photo, read_card) and the decoder thai2unicode.                 *)
(*                                                                         *)
(* The card and its channel (the pyscard connection object) are the        *)
(* environment.  A card is given by its ATR and by the payloads it holds   *)
(* (both fixed when the card is inserted, i.e. in Init); the status word   *)
(* of every response, and whether a channel call raises, is chosen anew at *)
(* every call.  Bytes are integers 0..255, strings are sequences of code   *)
(* points.  The channel's disconnect() is taken to return normally.        *)
(***************************************************************************)
EXTENDS Integers, Sequences, FiniteSets, TLC

\* ---------------------------------------------------------------- bounds
\* ATRs of the modelled cards have at most this many bytes.
MaxATRLen == 3
\* Number of modelled card contents (payload profiles).
NumCards == 3
\* Number of method calls a direct client of SmartCardConnection makes.
MaxApiCalls == 4

\* ------------------------------------------------------- program constants
\* _read_photo(self, conn, segments = 20)
Segments == 20
\* if len(photo_data) < 1024: return None
MinPhotoLen == 1024
\* elif sw1 == 0x61
SW1_MORE_DATA == 97

APDU_SELECT_COMMAND == <<0, 164, 4, 0, 8>>
APDU_APPLET_ID == <<160, 0, 0, 0, 84, 72, 0, 1>>
SW_SUCCESS == <<144, 0>>

\* The two GET RESPONSE prefixes of SmartCardConnection.connect.
PREFIX_ALT == <<0, 192, 0, 1>>
PREFIX_STD == <<0, 192, 0, 0>>

\* None as a reference (conn = None, self.conn falsy), and the names of the
\* exception classes that matter: SmartCardError, and any other ("Exception").
None == "None"
SmartCardError == "SmartCardError"
OtherException == "Exception"

\* The command catalog of read_card (lines 266-276): instruction and label.
\* Mutant of commands: the labels of the two name fields are exchanged.
commands_NamesSwapped ==
  << [ins |-> <<128, 176, 0, 4, 2, 0, 13>>,    label |-> "cid"],
     [ins |-> <<128, 176, 0, 17, 2, 0, 100>>,  label |-> "en_fullname"],
     [ins |-> <<128, 176, 0, 117, 2, 0, 100>>, label |-> "th_fullname"],
     [ins |-> <<128, 176, 0, 217, 2, 0, 8>>,   label |-> "dob"],
     [ins |-> <<128, 176, 0, 225, 2, 0, 1>>,   label |-> "gender"],
     [ins |-> <<128, 176, 0, 246, 2, 0, 100>>, label |-> "issuer"],
     [ins |-> <<128, 176, 1, 103, 2, 0, 8>>,   label |-> "issue_date"],
     [ins |-> <<128, 176, 1, 111, 2, 0, 8>>,   label |-> "expire_date"],
     [ins |-> <<128, 176, 21, 121, 2, 0, 100>>, label |-> "address"] >>

commands ==
  << [ins |-> <<128, 176, 0, 4, 2, 0, 13>>,    label |-> "cid"],
     [ins |-> <<128, 176, 0, 17, 2, 0, 100>>,  label |-> "th_fullname"],
     [ins |-> <<128, 176, 0, 117, 2, 0, 100>>, label |-> "en_fullname"],
     [ins |-> <<128, 176, 0, 217, 2, 0, 8>>,   label |-> "dob"],
     [ins |-> <<128, 176, 0, 225, 2, 0, 1>>,   label |-> "gender"],
     [ins |-> <<128, 176, 0, 246, 2, 0, 100>>, label |-> "issuer"],
     [ins |-> <<128, 176, 1, 103, 2, 0, 8>>,   label |-> "issue_date"],
     [ins |-> <<128, 176, 1, 111, 2, 0, 8>>,   label |-> "expire_date"],
     [ins |-> <<128, 176, 21, 121, 2, 0, 100>>, label |-> "address"] >>

Labels == {commands[i].label : i \in 1..Len(commands)}

\* Optional[bytearray] = None: the one value of that type that is no byte
\* string (bytes are 0..255).
NoPhoto == <<-1>>

\* IDCardData(): every text field "", photo_bytes None.
IDCardData == [l \in Labels \cup {"photo_bytes"} |->
                 IF l = "photo_bytes" THEN NoPhoto ELSE <<>>]

\* No record: card_data before line 278, and what a raising read_card returns.
NoRecord == <<>>

\* ------------------------------------------------------------- decoders
\* The decoding table of Python's tis-620 codec with errors='replace':
\* 00..9F map to themselves, A1..DA to U+0E01.., DF..FB to U+0E3F..,
\* every other byte to U+FFFD.
tis620(b) ==
  IF b <= 159 THEN b
  ELSE IF b >= 161 /\ b <= 218 THEN 3585 + (b - 161)
  ELSE IF b >= 223 /\ b <= 251 THEN 3647 + (b - 223)
  ELSE 65533

\* str.isspace() on the code points the decoder can produce.
IsSpace(c) == c \in {9, 10, 11, 12, 13, 28, 29, 30, 31, 32, 133}

RECURSIVE lstrip(_)
lstrip(s) == IF s # <<>> /\ IsSpace(Head(s)) THEN lstrip(Tail(s)) ELSE s

RECURSIVE rstrip(_)
rstrip(s) ==
  IF s # <<>> /\ IsSpace(s[Len(s)]) THEN rstrip(SubSeq(s, 1, Len(s) - 1)) ELSE s

\* bytes(data).decode('tis-620', errors='replace').replace('#', ' ').strip()
thai2unicode(data) ==
  LET decoded  == [k \in 1..Len(data) |-> tis620(data[k])]
      replaced == [k \in 1..Len(data) |-> IF decoded[k] = 35 THEN 32 ELSE decoded[k]]
  IN  rstrip(lstrip(replaced))

\* ------------------------------------------------------------- the cards
ATRBytes == {59, 103}
ATRs == UNION {[1..n -> ATRBytes] : n \in 0..MaxATRLen}
Cards == 1..NumCards

\* Raw field contents found on cards: digits, padded Latin text with '#'
\* fillers, Thai text with an unmapped byte, a date, nothing, a lone filler,
\* one letter, another date, text between control characters.
RawSamples ==
  << <<49, 50, 51>>,
     <<32, 77, 114, 35, 35, 65, 32>>,
     <<161, 35, 162, 160, 32>>,
     <<50, 53, 53, 48, 48, 57, 48, 55>>,
     <<>>,
     <<35>>,
     <<77>>,
     <<50, 53, 55, 48, 49, 50, 51, 49>>,
     <<9, 66, 35, 67, 10>> >>

\* What card c holds at the offset the f-th field command reads.
FieldPayload(c, f) == RawSamples[((c + f) % Len(RawSamples)) + 1]

\* The position in the catalog of a field command.
FieldIndexOf(apdu) == CHOOSE f \in 1..Len(commands) : commands[f].ins = apdu

\* What card c answers to the continuation of the field command apdu.
FieldAnswer(c, apdu) == FieldPayload(c, FieldIndexOf(apdu))

\* Number of bytes card c holds in photo segment s: card 1 has full 255-byte
\* segments; card 2 has four full segments and then one byte per segment
\* (1020, 1021, ... bytes, crossing 1024 at segment 8); the others have
\* equal short segments (card 3: 51 bytes, 1020 in all).
SegLen(c, s) ==
  IF c = 1 THEN 255
  ELSE IF c = 2 THEN (IF s <= 4 THEN 255 ELSE 1)
  ELSE 51 + 13 * (c - 3)

\* What card c answers to the continuation of photo segment s.
PhotoPayload(c, s) == [k \in 1..SegLen(c, s) |-> (16 * s + k) % 256]

\* Status words a card answers with: success, 90 xx that is not success,
\* more data (61 00, 61 10), and a failure.
StatusWords == {<<144, 0>>, <<144, 16>>, <<97, 0>>, <<97, 16>>, <<106, 130>>}

\* A response of the channel's transmit: it raises, or it returns a status
\* word (the data returned with it is the card's payload for the request).
NoStatus == <<-1, -1>>
Responses == {[raises |-> TRUE, sw |-> NoStatus]}
             \cup {[raises |-> FALSE, sw |-> w] : w \in StatusWords}

\* A script for a channel: what createConnection and connect() do, the
\* status word every command gets (a continuation gets 90 00), and one
\* transmission, the fail_at-th (0: none), that gets the response fail.
FailPoints == 0..60
CommandStyles == {<<144, 0>>, <<97, 0>>, <<97, 16>>}
Scripts ==
  [scripted : {TRUE}, create : {"raise", None, "channel"},
   how : {"connect_raises", "getATR_raises"}, style : {<<144, 0>>},
   fail_at : {0}, fail : {[raises |-> TRUE, sw |-> NoStatus]}]
  \cup
  [scripted : {TRUE}, create : {"channel"}, how : {"ok"},
   style : CommandStyles, fail_at : FailPoints, fail : Responses]

\* No script: the channel answers anything.
NoScript ==
  [scripted |-> FALSE, create |-> None, how |-> "ok", style |-> <<144, 0>>,
   fail_at |-> 0, fail |-> [raises |-> TRUE, sw |-> NoStatus]]

NoFirst == [outcome |-> "none", returned |-> NoRecord]

\* ----------------------------------------------------------------- state
VARIABLES
  pc,            \* position in read_card ("api": a direct client of the connection)
  conn,          \* read_card's local conn: None or the SmartCardConnection
  self_conn,     \* SmartCardConnection.conn: None or the channel
  get_response_apdu_prefix,   \* SmartCardConnection.get_response_apdu_prefix
  connected,     \* connect() has completed on the SmartCardConnection
  cmd_i,         \* index in commands of the field being read (for cmd in commands)
  seg_i,         \* _read_photo's loop variable i
  command_apdu,  \* _get_data_with_get_response's parameter
  expected_len,  \* _get_data_with_get_response's local
  sw,            \* [sw1, sw2] of the command (lines 201, 250)
  card_data,     \* read_card's local card_data
  photo_data,    \* _read_photo's local photo_data
  pending,       \* what leaves read_card's try block: "return" or an exception
  raised_at,     \* the position at which the exception that leaves was raised
  exc_sw,        \* the status word its message carries (NoStatus: none)
  outcome,       \* how read_card ended: "returned" or the exception raised
  returned,      \* the record read_card returned
  atr,           \* the card's answer to reset
  card,          \* the card's contents (see FieldPayload, PhotoPayload)
  ch_open,       \* the channel is connected
  ch_disconnects,   \* calls of the channel's disconnect()
  ch_tx,            \* calls of the channel's transmit()
  ch_tx_unconnected,\* ... of which on a connection connect() had not completed on
  ch_last,          \* the APDU of the latest call of the channel's transmit()
  ch_last_kind,     \* what it was sent as: "select", "field", "photo", their "_gr", "api"
  ch_last_sw,       \* the status word answered to it (NoStatus: the call raised)
  ch_cmd,           \* the latest APDU received that was no continuation
  ch_cmd_sw,        \* the status word answered to it
  first_fail,       \* the first photo segment whose command or continuation
                    \* was answered with a failing status word (0: none)
  api_calls,     \* calls made by the direct client
  signals,       \* the signals ReaderWorker has emitted, in order
  readers,       \* the readers the system lists (smartcard.System.readers())
  message,       \* the message of the latest QMessageBox.critical ("": none)
  selected_reader,  \* start_scan's local selected_reader
  threads,       \* QThreads started by start_scan
  scan_button,   \* scan_button.isEnabled()
  date_str,      \* format_date's argument
  formatted,     \* what format_date returned
  script,        \* what the channel is scripted to answer, if it is
  run_no,        \* 1, or 2 in the second of two scripted runs
  first          \* outcome and record of the first of two scripted runs

conn_vars == <<conn, self_conn, get_response_apdu_prefix, connected>>
chan_vars == <<ch_open, ch_disconnects, ch_tx, ch_tx_unconnected, ch_last,
               ch_last_kind, ch_last_sw, ch_cmd, ch_cmd_sw, first_fail>>
loop_vars == <<cmd_i, seg_i, command_apdu, expected_len, sw>>
data_vars == <<card_data, photo_data>>
exit_vars == <<pending, raised_at, exc_sw>>
end_vars  == <<outcome, returned>>
scan_vars == <<readers, message, selected_reader, threads, scan_button>>
date_vars == <<date_str, formatted>>
twice_vars == <<script, run_no, first>>
ui_vars   == <<signals, scan_vars, date_vars, twice_vars>>
env_vars  == <<atr, card, api_calls, ui_vars>>
vars == <<pc, conn_vars, chan_vars, loop_vars, data_vars, exit_vars,
          end_vars, env_vars>>

\* The window before any scan: no reader list seen, no message, button enabled.
ScanIdle ==
  /\ readers = <<>>
  /\ message = ""
  /\ selected_reader = None
  /\ threads = 0
  /\ scan_button = TRUE

\* One run of read_card against a channel that may answer anything.
Unscripted ==
  /\ script = NoScript
  /\ run_no = 1
  /\ first = NoFirst

\* What the channel may answer to its next transmission, sent as kind.
Answers(kind) ==
  IF ~script.scripted THEN Responses
  ELSE IF ch_tx + 1 = script.fail_at THEN {script.fail}
  ELSE IF kind \in {"select_gr", "field_gr", "photo_gr"}
  THEN {[raises |-> FALSE, sw |-> <<144, 0>>]}
  ELSE {[raises |-> FALSE, sw |-> script.style]}

\* What createConnection may do, and what connect() may.
CreateResults ==
  IF script.scripted THEN {script.create} ELSE {"raise", None, "channel"}
ConnectResults ==
  IF script.scripted THEN {script.how}
  ELSE {"ok", "connect_raises", "getATR_raises"}

\* No date formatted.
DateIdle ==
  /\ date_str = <<>>
  /\ formatted = <<>>

ContinuationKinds == {"select_gr", "field_gr", "photo_gr"}

\* ---------------------------------------------------- SmartCardConnection
\* Mutant of ContinuationPrefix: only the first ATR byte is compared.
ContinuationPrefix_FirstByteOnly(a) ==
  IF SubSeq(a, 1, IF Len(a) < 1 THEN Len(a) ELSE 1) = <<59>>
  THEN PREFIX_ALT ELSE PREFIX_STD

\* connect, line 170: the prefix chosen from the ATR (atr[:2] == [0x3B, 0x67]).
ContinuationPrefix(a) ==
  IF SubSeq(a, 1, IF Len(a) < 2 THEN Len(a) ELSE 2) = <<59, 103>>
  THEN PREFIX_ALT ELSE PREFIX_STD

\* Mutant of connect: the prefix is left as the constructor set it.
connect_PrefixNotSet(how) ==
  /\ ch_open' = (ch_open \/ how # "connect_raises")
  /\ connected' = (connected \/ how = "ok")
  /\ UNCHANGED <<get_response_apdu_prefix, conn, self_conn, ch_disconnects,
                 ch_tx, ch_tx_unconnected, ch_last, ch_last_kind, ch_last_sw,
                 ch_cmd, ch_cmd_sw, first_fail>>

\* SmartCardConnection.connect(): how is what the channel does: "ok",
\* "connect_raises" (self.conn.connect() raises, also when self.conn is None)
\* or "getATR_raises".
connect(how) ==
  /\ ch_open' = (ch_open \/ how # "connect_raises")
  /\ connected' = (connected \/ how = "ok")
  /\ get_response_apdu_prefix' =
       IF how = "ok" THEN ContinuationPrefix(atr) ELSE get_response_apdu_prefix
  /\ UNCHANGED <<conn, self_conn, ch_disconnects, ch_tx, ch_tx_unconnected,
                 ch_last, ch_last_kind, ch_last_sw, ch_cmd, ch_cmd_sw, first_fail>>

\* SmartCardConnection.transmit(apdu): return self.conn.transmit(apdu).  The
\* channel receives apdu and answers resp; the channel variables record it.
transmit(apdu, kind, resp) ==
  LET cont  == kind \in ContinuationKinds
      fails == /\ ~resp.raises
               /\ resp.sw # SW_SUCCESS
               /\ \/ kind = "photo_gr"
                  \/ kind = "photo" /\ resp.sw[1] # SW1_MORE_DATA
      seg   == IF kind = "photo" THEN apdu[3] ELSE ch_cmd[3]
  IN
  /\ ch_tx' = ch_tx + 1
  /\ ch_tx_unconnected' = ch_tx_unconnected + (IF connected THEN 0 ELSE 1)
  /\ ch_last' = apdu
  /\ ch_last_kind' = kind
  /\ ch_last_sw' = resp.sw
  /\ ch_cmd' = IF cont THEN ch_cmd ELSE apdu
  /\ ch_cmd_sw' = IF cont THEN ch_cmd_sw ELSE resp.sw
  /\ first_fail' = IF first_fail = 0 /\ fails THEN seg ELSE first_fail
  /\ UNCHANGED <<ch_open, ch_disconnects>>

\* Mutant of disconnect: a channel that connect() did not open is left alone.
disconnect_OnlyIfOpen ==
  /\ IF self_conn # None /\ ch_open
     THEN ch_disconnects' = ch_disconnects + 1 /\ ch_open' = FALSE
     ELSE UNCHANGED <<ch_disconnects, ch_open>>
  /\ UNCHANGED <<ch_tx, ch_tx_unconnected, ch_last, ch_last_kind, ch_last_sw,
                 ch_cmd, ch_cmd_sw, first_fail>>

\* SmartCardConnection.disconnect(): if self.conn: self.conn.disconnect().
disconnect ==
  /\ IF self_conn # None
     THEN ch_disconnects' = ch_disconnects + 1 /\ ch_open' = FALSE
     ELSE UNCHANGED <<ch_disconnects, ch_open>>
  /\ UNCHANGED <<ch_tx, ch_tx_unconnected, ch_last, ch_last_kind, ch_last_sw,
                 ch_cmd, ch_cmd_sw, first_fail>>

\* ------------------------------------------- _get_data_with_get_response
\* Mutant of CommandFails: only sw1 is looked at, so 90 xx passes.
CommandFails_Sw1Only(w) == w[1] # 144 /\ w[1] # SW1_MORE_DATA

\* Lines 204-209: the command's status word raises SmartCardError.
CommandFails(w) == w # SW_SUCCESS /\ w[1] # SW1_MORE_DATA

\* Mutant of ExpectedLen: the count of a 61 n status is ignored.
ExpectedLen_IgnoresMoreData(apdu, w) == apdu[Len(apdu)]

\* Lines 202-207: the length byte of the continuation.
ExpectedLen(apdu, w) == IF w = SW_SUCCESS THEN apdu[Len(apdu)] ELSE w[2]

\* Lines 211 and 256: the continuation command.
GetResponseApdu(prefix, len) == prefix \o <<len>>

\* Mutant of GetResponseFails: a continuation answered 61 n is accepted.
GetResponseFails_AcceptsMoreData(w) == w # SW_SUCCESS /\ w[1] # SW1_MORE_DATA

\* Lines 214 and 259: the continuation's status word raises SmartCardError.
GetResponseFails(w) == w # SW_SUCCESS

\* ------------------------------------------------------------ _read_photo
\* Mutant of SegmentCommand: P2 counts up from 0x7C instead of down.
SegmentCommand_P2Up(i) == <<128, 176, i % 256, (124 + i) % 256, 2, 0, 255>>

\* Lines 227-229: the command of segment i.
SegmentCommand(i) == <<128, 176, i % 256, (124 - i) % 256, 2, 0, 255>>

\* Mutant of PhotoResult: a buffer of exactly 1024 bytes is dropped too.
PhotoResult_Inclusive(buf) == IF Len(buf) <= MinPhotoLen THEN NoPhoto ELSE buf

\* Lines 237-240: a buffer shorter than 1024 bytes is no photo.
PhotoResult(buf) == IF Len(buf) < MinPhotoLen THEN NoPhoto ELSE buf

\* ---------------------------------------------------------------- read_card
\* An exception leaves the try block at the current position; w is the
\* status word formatted into its message ({sw1:02X} {sw2:02X}), NoStatus
\* for an exception that read_card did not raise itself.
Raise(exc, w) ==
  /\ pending' = exc
  /\ raised_at' = pc
  /\ exc_sw' = w
  /\ pc' = "finally"

\* Mutant of SelectOutcome: 61 n is taken for success, without continuation.
SelectOutcome_MoreDataProceeds(w) ==
  IF w = SW_SUCCESS \/ w[1] = SW1_MORE_DATA THEN "proceed" ELSE "raise"

\* Lines 252-263: what the select command's status word leads to.
SelectOutcome(w) ==
  IF w = SW_SUCCESS THEN "proceed"
  ELSE IF w[1] = SW1_MORE_DATA THEN "get_response"
  ELSE "raise"

\* Lines 278-280: card_data = IDCardData(), the first field is next.
BeginFields ==
  /\ card_data' = IDCardData
  /\ cmd_i' = 1
  /\ pc' = "field_cmd"

\* Mutant of BeginPhoto: the buffer is not made anew.
BeginPhoto_KeepsBuffer ==
  /\ UNCHANGED photo_data
  /\ seg_i' = 1
  /\ pc' = "photo_cmd"

\* Lines 224-225: photo_data = bytearray(), the first segment is next.
BeginPhoto ==
  /\ photo_data' = <<>>
  /\ seg_i' = 1
  /\ pc' = "photo_cmd"

\* Lines 237-240, 284, 286: the loop is over; the photo is stored and the
\* record returned.
FinishPhoto(buf) ==
  /\ photo_data' = buf
  /\ card_data' = [card_data EXCEPT !["photo_bytes"] = PhotoResult(buf)]
  /\ pending' = "return"
  /\ pc' = "finally"
  /\ UNCHANGED <<raised_at, exc_sw>>

\* Mutant of SegmentError: the segment's SmartCardError is not caught.
SegmentError_Propagates ==
  /\ Raise(SmartCardError, ch_last_sw')
  /\ UNCHANGED <<photo_data, card_data>>

\* Lines 234-235: except SmartCardError: break.
SegmentError == FinishPhoto(photo_data)

\* Mutant of SegmentRead: the loop runs one segment past the last.
SegmentRead_OneMore(data) ==
  LET extended == photo_data \o data IN
  IF seg_i <= Segments
  THEN /\ photo_data' = extended
       /\ seg_i' = seg_i + 1
       /\ pc' = "photo_cmd"
       /\ UNCHANGED <<card_data, exit_vars>>
  ELSE /\ FinishPhoto(extended)
       /\ UNCHANGED seg_i

\* Lines 232-233 and the loop's end: the segment's payload extends the
\* buffer; after the last segment the loop is over.
SegmentRead(data) ==
  LET extended == photo_data \o data IN
  IF seg_i < Segments
  THEN /\ photo_data' = extended
       /\ seg_i' = seg_i + 1
       /\ pc' = "photo_cmd"
       /\ UNCHANGED <<card_data, exit_vars>>
  ELSE /\ FinishPhoto(extended)
       /\ UNCHANGED seg_i

\* Line 245: conn = SmartCardConnection(self.reader.createConnection()).
CreateConnection ==
  /\ pc = "start"
  /\ \E r \in CreateResults :
       IF r = "raise"
       THEN /\ Raise(OtherException, NoStatus)
            /\ UNCHANGED conn_vars
       ELSE /\ conn' = "SmartCardConnection"
            /\ self_conn' = r
            /\ get_response_apdu_prefix' = <<>>
            /\ pc' = "connect"
            /\ UNCHANGED <<connected, exit_vars>>
  /\ UNCHANGED <<chan_vars, loop_vars, data_vars, end_vars, env_vars>>

\* Line 246: conn.connect().
Connect ==
  /\ pc = "connect"
  /\ \E how \in ConnectResults \cup {"connect_raises"} :
       /\ self_conn = None => how = "connect_raises"
       /\ self_conn # None => how \in ConnectResults
       /\ connect(how)
       /\ IF how = "ok"
          THEN pc' = "select" /\ UNCHANGED exit_vars
          ELSE Raise(OtherException, NoStatus)
  /\ UNCHANGED <<loop_vars, data_vars, end_vars, env_vars>>

\* Lines 249-263: the select command and the three ways its status is handled.
SelectApplet ==
  /\ pc = "select"
  /\ \E resp \in Answers("select") :
       /\ transmit(APDU_SELECT_COMMAND \o APDU_APPLET_ID, "select", resp)
       /\ IF resp.raises
          THEN /\ Raise(OtherException, NoStatus)
               /\ UNCHANGED <<sw, card_data, cmd_i>>
          ELSE /\ sw' = resp.sw
               /\ IF SelectOutcome(resp.sw) = "proceed"
                  THEN BeginFields /\ UNCHANGED exit_vars
                  ELSE IF SelectOutcome(resp.sw) = "get_response"
                  THEN pc' = "select_gr" /\ UNCHANGED <<exit_vars, card_data, cmd_i>>
                  ELSE Raise(SmartCardError, resp.sw) /\ UNCHANGED <<card_data, cmd_i>>
  /\ UNCHANGED <<conn_vars, seg_i, command_apdu, expected_len, photo_data,
                 end_vars, env_vars>>

\* Lines 256-260: the continuation of the select command.
SelectGetResponse ==
  /\ pc = "select_gr"
  /\ \E resp \in Answers("select_gr") :
       /\ transmit(GetResponseApdu(get_response_apdu_prefix, sw[2]), "select_gr", resp)
       /\ IF resp.raises
          THEN /\ Raise(OtherException, NoStatus)
               /\ UNCHANGED <<card_data, cmd_i>>
          ELSE IF GetResponseFails(resp.sw)
          THEN Raise(SmartCardError, resp.sw) /\ UNCHANGED <<card_data, cmd_i>>
          ELSE BeginFields /\ UNCHANGED exit_vars
  /\ UNCHANGED <<conn_vars, sw, seg_i, command_apdu, expected_len,
                 photo_data, end_vars, env_vars>>

\* _read_field -> _get_data_with_get_response, lines 201-209, for
\* commands[cmd_i].
FieldCommand ==
  /\ pc = "field_cmd"
  /\ LET apdu == commands[cmd_i].ins IN
       /\ command_apdu' = apdu
       /\ \E resp \in Answers("field") :
            /\ transmit(apdu, "field", resp)
            /\ IF resp.raises
               THEN /\ Raise(OtherException, NoStatus)
                    /\ UNCHANGED <<sw, expected_len>>
               ELSE /\ sw' = resp.sw
                    /\ IF CommandFails(resp.sw)
                       THEN Raise(SmartCardError, resp.sw) /\ UNCHANGED expected_len
                       ELSE /\ expected_len' = ExpectedLen(apdu, resp.sw)
                            /\ pc' = "field_gr"
                            /\ UNCHANGED exit_vars
  /\ UNCHANGED <<conn_vars, cmd_i, seg_i, data_vars, end_vars, env_vars>>

\* Mutant of FieldGetResponse: a continuation answered 61 n is continued by
\* another GET RESPONSE instead of failing the read.
FieldGetResponse_Chains ==
  /\ pc = "field_gr"
  /\ \E resp \in Answers("field_gr") :
       /\ transmit(GetResponseApdu(get_response_apdu_prefix, expected_len),
                   "field_gr", resp)
       /\ IF resp.raises
          THEN /\ Raise(OtherException, NoStatus)
               /\ UNCHANGED <<card_data, photo_data, cmd_i, seg_i>>
          ELSE IF resp.sw[1] = SW1_MORE_DATA
          THEN /\ pc' = "field_gr"
               /\ UNCHANGED <<card_data, photo_data, cmd_i, seg_i, exit_vars>>
          ELSE IF GetResponseFails(resp.sw)
          THEN /\ Raise(SmartCardError, resp.sw)
               /\ UNCHANGED <<card_data, photo_data, cmd_i, seg_i>>
          ELSE /\ card_data' = [card_data EXCEPT
                     ![commands[cmd_i].label] =
                         thai2unicode(FieldAnswer(card, ch_cmd))]
               /\ IF cmd_i < Len(commands)
                  THEN /\ cmd_i' = cmd_i + 1
                       /\ pc' = "field_cmd"
                       /\ UNCHANGED <<photo_data, seg_i>>
                  ELSE /\ BeginPhoto
                       /\ UNCHANGED cmd_i
               /\ UNCHANGED exit_vars
  /\ UNCHANGED <<conn_vars, sw, command_apdu, expected_len, end_vars, env_vars>>

\* Lines 211-217, then 221 and 281: the continuation of the field command;
\* its payload is decoded and stored under the field's label; after the last
\* field _read_photo begins (line 224).
FieldGetResponse ==
  /\ pc = "field_gr"
  /\ \E resp \in Answers("field_gr") :
       /\ transmit(GetResponseApdu(get_response_apdu_prefix, expected_len),
                   "field_gr", resp)
       /\ IF resp.raises
          THEN /\ Raise(OtherException, NoStatus)
               /\ UNCHANGED <<card_data, photo_data, cmd_i, seg_i>>
          ELSE IF GetResponseFails(resp.sw)
          THEN /\ Raise(SmartCardError, resp.sw)
               /\ UNCHANGED <<card_data, photo_data, cmd_i, seg_i>>
          ELSE /\ card_data' = [card_data EXCEPT
                     ![commands[cmd_i].label] =
                         thai2unicode(FieldAnswer(card, ch_cmd))]
               /\ IF cmd_i < Len(commands)
                  THEN /\ cmd_i' = cmd_i + 1
                       /\ pc' = "field_cmd"
                       /\ UNCHANGED <<photo_data, seg_i>>
                  ELSE /\ BeginPhoto
                       /\ UNCHANGED cmd_i
               /\ UNCHANGED exit_vars
  /\ UNCHANGED <<conn_vars, sw, command_apdu, expected_len, end_vars, env_vars>>

\* _read_photo, lines 227-235 with 201-209: the command of segment seg_i; a
\* SmartCardError ends the loop.
PhotoCommand ==
  /\ pc = "photo_cmd"
  /\ LET apdu == SegmentCommand(seg_i) IN
       /\ command_apdu' = apdu
       /\ \E resp \in Answers("photo") :
            /\ transmit(apdu, "photo", resp)
            /\ IF resp.raises
               THEN /\ Raise(OtherException, NoStatus)
                    /\ UNCHANGED <<sw, expected_len, data_vars>>
               ELSE /\ sw' = resp.sw
                    /\ IF CommandFails(resp.sw)
                       THEN /\ SegmentError
                            /\ UNCHANGED expected_len
                       ELSE /\ expected_len' = ExpectedLen(apdu, resp.sw)
                            /\ pc' = "photo_gr"
                            /\ UNCHANGED <<exit_vars, data_vars>>
  /\ UNCHANGED <<conn_vars, cmd_i, seg_i, end_vars, env_vars>>

\* _read_photo, lines 232-235 with 211-217: the continuation of the segment
\* command; its payload extends the buffer; a SmartCardError ends the loop,
\* and so does the last segment.
PhotoGetResponse ==
  /\ pc = "photo_gr"
  /\ \E resp \in Answers("photo_gr") :
       /\ transmit(GetResponseApdu(get_response_apdu_prefix, expected_len),
                   "photo_gr", resp)
       /\ IF resp.raises
          THEN /\ Raise(OtherException, NoStatus)
               /\ UNCHANGED <<data_vars, seg_i>>
          ELSE IF GetResponseFails(resp.sw)
          THEN /\ SegmentError
               /\ UNCHANGED seg_i
          ELSE SegmentRead(PhotoPayload(card, ch_cmd[3]))
  /\ UNCHANGED <<conn_vars, sw, cmd_i, command_apdu, expected_len,
                 end_vars, env_vars>>

\* Mutant of Finally: the connection is released on the return path only.
Finally_ReturnOnly ==
  /\ pc = "finally"
  /\ IF conn # None /\ pending = "return" THEN disconnect ELSE UNCHANGED chan_vars
  /\ outcome' = IF pending = "return" THEN "returned" ELSE pending
  /\ returned' = IF pending = "return" THEN card_data ELSE NoRecord
  /\ pc' = "done"
  /\ UNCHANGED <<conn_vars, loop_vars, data_vars, exit_vars, env_vars>>

\* Lines 288-290: finally: if conn: conn.disconnect(); then the return value
\* or the exception reaches the caller.
Finally ==
  /\ pc = "finally"
  /\ IF conn # None THEN disconnect ELSE UNCHANGED chan_vars
  /\ outcome' = IF pending = "return" THEN "returned" ELSE pending
  /\ returned' = IF pending = "return" THEN card_data ELSE NoRecord
  /\ pc' = "done"
  /\ UNCHANGED <<conn_vars, loop_vars, data_vars, exit_vars, env_vars>>

\* The state before read_card runs, for any card in the reader.
Init ==
  /\ pc = "start"
  /\ conn = None
  /\ self_conn = None
  /\ get_response_apdu_prefix = <<>>
  /\ connected = FALSE
  /\ cmd_i = 0
  /\ seg_i = 0
  /\ command_apdu = <<>>
  /\ expected_len = 0
  /\ sw = NoStatus
  /\ card_data = NoRecord
  /\ photo_data = <<>>
  /\ pending = "none"
  /\ raised_at = "none"
  /\ exc_sw = NoStatus
  /\ outcome = "none"
  /\ returned = NoRecord
  /\ atr \in ATRs
  /\ card \in Cards
  /\ ch_open = FALSE
  /\ ch_disconnects = 0
  /\ ch_tx = 0
  /\ ch_tx_unconnected = 0
  /\ ch_last = <<>>
  /\ ch_last_kind = "none"
  /\ ch_last_sw = NoStatus
  /\ ch_cmd = <<>>
  /\ ch_cmd_sw = NoStatus
  /\ first_fail = 0
  /\ api_calls = 0
  /\ signals = <<>>
  /\ Unscripted
  /\ ScanIdle
  /\ DateIdle

Next ==
  \/ CreateConnection
  \/ Connect
  \/ SelectApplet
  \/ SelectGetResponse
  \/ FieldCommand
  \/ FieldGetResponse
  \/ PhotoCommand
  \/ PhotoGetResponse
  \/ Finally

Spec == Init /\ [][Next]_vars

\* read_card is straight-line code on one thread: as long as each call it
\* makes returns or raises, its next statement is executed.
SpecLive == Spec /\ WF_vars(Next)

\* ------------------------------------------------ two scripted runs
\* read_card is called again, on a new channel that follows the same script:
\* line 243 (conn = None) and a new channel; what the first call left in
\* the other locals is not cleared here, the call itself has to set them.
SecondRun ==
  /\ pc = "done"
  /\ script.scripted
  /\ run_no = 1
  /\ first' = [outcome |-> outcome, returned |-> returned]
  /\ run_no' = 2
  /\ pc' = "start"
  /\ conn' = None
  /\ connected' = FALSE
  /\ ch_open' = FALSE
  /\ ch_disconnects' = 0
  /\ ch_tx' = 0
  /\ ch_tx_unconnected' = 0
  /\ ch_last' = <<>>
  /\ ch_last_kind' = "none"
  /\ ch_last_sw' = NoStatus
  /\ ch_cmd' = <<>>
  /\ ch_cmd_sw' = NoStatus
  /\ first_fail' = 0
  /\ pending' = "none"
  /\ raised_at' = "none"
  /\ exc_sw' = NoStatus
  /\ outcome' = "none"
  /\ returned' = NoRecord
  /\ UNCHANGED <<self_conn, get_response_apdu_prefix, loop_vars, data_vars,
                 atr, card, api_calls, signals, scan_vars, date_vars, script>>

\* The state before the first of two runs of read_card against channels
\* that follow one script, for a card with or without the 3B 67 ATR.
InitTwice ==
  /\ pc = "start"
  /\ conn = None
  /\ self_conn = None
  /\ get_response_apdu_prefix = <<>>
  /\ connected = FALSE
  /\ cmd_i = 0
  /\ seg_i = 0
  /\ command_apdu = <<>>
  /\ expected_len = 0
  /\ sw = NoStatus
  /\ card_data = NoRecord
  /\ photo_data = <<>>
  /\ pending = "none"
  /\ raised_at = "none"
  /\ exc_sw = NoStatus
  /\ outcome = "none"
  /\ returned = NoRecord
  /\ atr \in {<<>>, <<59, 103>>}
  /\ card \in Cards
  /\ ch_open = FALSE
  /\ ch_disconnects = 0
  /\ ch_tx = 0
  /\ ch_tx_unconnected = 0
  /\ ch_last = <<>>
  /\ ch_last_kind = "none"
  /\ ch_last_sw = NoStatus
  /\ ch_cmd = <<>>
  /\ ch_cmd_sw = NoStatus
  /\ first_fail = 0
  /\ api_calls = 0
  /\ signals = <<>>
  /\ ScanIdle
  /\ DateIdle
  /\ script \in Scripts
  /\ run_no = 1
  /\ first = NoFirst

NextTwice ==
  \/ Next
  \/ SecondRun

SpecTwice == InitTwice /\ [][NextTwice]_vars

\* ------------------------------------------------------------ ReaderWorker
\* A signal of ReaderWorker: finished(IDCardData) or error(str); the message
\* of error is its fixed text followed by the exception's own message.
Signal(name, text, w, data) ==
  [signal |-> name, text |-> text, detail |-> w, data |-> data]

\* Mutant of run: the handler of Exception comes first, and catches all.
run_ExceptionFirst ==
  /\ pc = "done"
  /\ signals' = Append(signals,
       IF outcome = "returned"
       THEN Signal("finished", "", NoStatus, returned)
       ELSE Signal("error", "An unexpected error occurred: ", NoStatus, NoRecord))
  /\ pc' = "emitted"
  /\ UNCHANGED <<conn_vars, chan_vars, loop_vars, data_vars, exit_vars,
                 end_vars, atr, card, api_calls, scan_vars, date_vars,
                 twice_vars>>

\* ReaderWorker.run, lines 304-311, once read_card has ended: finished.emit
\* of the record, or error.emit from the handler of the exception's class.
run ==
  /\ pc = "done"
  /\ signals' = Append(signals,
       IF outcome = "returned"
       THEN Signal("finished", "", NoStatus, returned)
       ELSE IF outcome = SmartCardError
       THEN Signal("error", "Smart Card Error: ", exc_sw, NoRecord)
       ELSE Signal("error", "An unexpected error occurred: ", NoStatus, NoRecord))
  /\ pc' = "emitted"
  /\ UNCHANGED <<conn_vars, chan_vars, loop_vars, data_vars, exit_vars,
                 end_vars, atr, card, api_calls, scan_vars, date_vars,
                 twice_vars>>

NextWorker ==
  \/ Next
  \/ run

SpecWorker == Init /\ [][NextWorker]_vars

\* --------------------------------------------------- MainWindow.start_scan
MaxReaders == 3

\* Reader names: "ACS", "scr3", "Identiv", "O2".
ReaderNames == {<<65, 67, 83>>, <<115, 99, 114, 51>>,
                <<73, 100, 101, 110, 116, 105, 118>>, <<79, 50>>}
ReaderLists == UNION {[1..n -> ReaderNames] : n \in 0..MaxReaders}

\* Line 431: 'TRK2700RB', 'IDENTIV', 'SCR', 'CCID'.
TARGET_READER_NAMES ==
  << <<84, 82, 75, 50, 55, 48, 48, 82, 66>>,
     <<73, 68, 69, 78, 84, 73, 86>>,
     <<83, 67, 82>>,
     <<67, 67, 73, 68>> >>

\* str.upper() on the letters a-z.
upper(s) == [k \in 1..Len(s) |-> IF s[k] \in 97..122 THEN s[k] - 32 ELSE s[k]]

\* name in reader_name
Contains(s, t) ==
  \E k \in 0..(Len(s) - Len(t)) : SubSeq(s, k + 1, k + Len(t)) = t

\* Line 435: any(name in reader_name for name in TARGET_READER_NAMES).
IsTarget(reader) ==
  \E n \in 1..Len(TARGET_READER_NAMES) :
    Contains(upper(reader), TARGET_READER_NAMES[n])

\* Lines 432-440: the first reader with a known model name, else the first.
SelectReader(reader_list) ==
  IF \E k \in 1..Len(reader_list) : IsTarget(reader_list[k])
  THEN LET k == CHOOSE j \in 1..Len(reader_list) :
                  /\ IsTarget(reader_list[j])
                  /\ \A h \in 1..(j - 1) : ~IsTarget(reader_list[h])
       IN reader_list[k]
  ELSE reader_list[1]

\* Line 427: the module defines no name readrse (line 23 imports readers), so
\* evaluating it raises NameError.
readrse == "NameError"

\* Lines 520-523: the button is enabled again and the message shown.
on_scan_error(text) ==
  /\ scan_button' = TRUE
  /\ message' = text

\* start_scan, lines 420-458, with the handler it ends in.
start_scan ==
  /\ pc = "ui"
  /\ scan_button
  /\ IF readrse = "NameError"
     THEN /\ on_scan_error("Reader initialization error: ")
          /\ UNCHANGED <<selected_reader, threads>>
     ELSE IF readers = <<>>
     THEN /\ on_scan_error("No smartcard readers found. Please plug in the reader.")
          /\ UNCHANGED <<selected_reader, threads>>
     ELSE /\ selected_reader' = SelectReader(readers)
          /\ threads' = threads + 1
          /\ scan_button' = FALSE
          /\ UNCHANGED message
  /\ UNCHANGED <<pc, conn_vars, chan_vars, loop_vars, data_vars, exit_vars,
                 end_vars, atr, card, api_calls, signals, readers, date_vars,
                 twice_vars>>

\* The window is shown, with any readers plugged in.
InitScan ==
  /\ pc = "ui"
  /\ conn = None
  /\ self_conn = None
  /\ get_response_apdu_prefix = <<>>
  /\ connected = FALSE
  /\ cmd_i = 0
  /\ seg_i = 0
  /\ command_apdu = <<>>
  /\ expected_len = 0
  /\ sw = NoStatus
  /\ card_data = NoRecord
  /\ photo_data = <<>>
  /\ pending = "none"
  /\ raised_at = "none"
  /\ exc_sw = NoStatus
  /\ outcome = "none"
  /\ returned = NoRecord
  /\ atr = <<>>
  /\ card = 1
  /\ ch_open = FALSE
  /\ ch_disconnects = 0
  /\ ch_tx = 0
  /\ ch_tx_unconnected = 0
  /\ ch_last = <<>>
  /\ ch_last_kind = "none"
  /\ ch_last_sw = NoStatus
  /\ ch_cmd = <<>>
  /\ ch_cmd_sw = NoStatus
  /\ first_fail = 0
  /\ api_calls = 0
  /\ signals = <<>>
  /\ Unscripted
  /\ readers \in ReaderLists
  /\ message = ""
  /\ selected_reader = None
  /\ threads = 0
  /\ scan_button = TRUE
  /\ DateIdle

NextScan == start_scan

SpecScan == InitScan /\ [][NextScan]_vars

\* -------------------------------------------------------------- format_date
MaxDateLen == 9

\* Characters of date strings: space, '2', '7', 'a'.
DateChars == {32, 50, 55, 97}
DateStrings == UNION {[1..n -> DateChars] : n \in 0..MaxDateLen}

\* str.isdigit() on a non-empty string of the characters the decoder can
\* produce: 0-9 and the Thai digits.
isdigit(s) == s # <<>> /\ \A k \in 1..Len(s) : s[k] \in (48..57) \cup (3664..3673)

\* format_date, lines 137-143.
format_date(s) ==
  LET stripped == rstrip(lstrip(s)) IN
  IF Len(stripped) = 8 /\ isdigit(stripped)
  THEN LET year  == SubSeq(stripped, 1, 4)
           month == SubSeq(stripped, 5, 6)
           day   == SubSeq(stripped, 7, 8)
       IN  day \o <<47>> \o month \o <<47>> \o year
  ELSE stripped

\* A call format_date(date_str).
FormatDate ==
  /\ pc = "date"
  /\ formatted' = format_date(date_str)
  /\ pc' = "formatted"
  /\ UNCHANGED <<conn_vars, chan_vars, loop_vars, data_vars, exit_vars,
                 end_vars, atr, card, api_calls, signals, scan_vars, date_str,
                 twice_vars>>

InitDate ==
  /\ pc = "date"
  /\ conn = None
  /\ self_conn = None
  /\ get_response_apdu_prefix = <<>>
  /\ connected = FALSE
  /\ cmd_i = 0
  /\ seg_i = 0
  /\ command_apdu = <<>>
  /\ expected_len = 0
  /\ sw = NoStatus
  /\ card_data = NoRecord
  /\ photo_data = <<>>
  /\ pending = "none"
  /\ raised_at = "none"
  /\ exc_sw = NoStatus
  /\ outcome = "none"
  /\ returned = NoRecord
  /\ atr = <<>>
  /\ card = 1
  /\ ch_open = FALSE
  /\ ch_disconnects = 0
  /\ ch_tx = 0
  /\ ch_tx_unconnected = 0
  /\ ch_last = <<>>
  /\ ch_last_kind = "none"
  /\ ch_last_sw = NoStatus
  /\ ch_cmd = <<>>
  /\ ch_cmd_sw = NoStatus
  /\ first_fail = 0
  /\ api_calls = 0
  /\ signals = <<>>
  /\ Unscripted
  /\ ScanIdle
  /\ date_str \in DateStrings
  /\ formatted = <<>>

NextDate == FormatDate

SpecDate == InitDate /\ [][NextDate]_vars

\* ------------------------------------- a direct client of the connection
\* A caller that holds a SmartCardConnection over a channel and calls its
\* three methods in any order.
ApiApdus == {APDU_SELECT_COMMAND \o APDU_APPLET_ID, commands[1].ins}

InitApi ==
  /\ pc = "api"
  /\ conn = "SmartCardConnection"
  /\ self_conn = "channel"
  /\ get_response_apdu_prefix = <<>>
  /\ connected = FALSE
  /\ cmd_i = 0
  /\ seg_i = 0
  /\ command_apdu = <<>>
  /\ expected_len = 0
  /\ sw = NoStatus
  /\ card_data = NoRecord
  /\ photo_data = <<>>
  /\ pending = "none"
  /\ raised_at = "none"
  /\ exc_sw = NoStatus
  /\ outcome = "none"
  /\ returned = NoRecord
  /\ atr \in ATRs
  /\ card \in Cards
  /\ ch_open = FALSE
  /\ ch_disconnects = 0
  /\ ch_tx = 0
  /\ ch_tx_unconnected = 0
  /\ ch_last = <<>>
  /\ ch_last_kind = "none"
  /\ ch_last_sw = NoStatus
  /\ ch_cmd = <<>>
  /\ ch_cmd_sw = NoStatus
  /\ first_fail = 0
  /\ api_calls = 0
  /\ signals = <<>>
  /\ Unscripted
  /\ ScanIdle
  /\ DateIdle

\* conn.connect()
ApiConnect ==
  /\ pc = "api"
  /\ api_calls < MaxApiCalls
  /\ \E how \in {"ok", "connect_raises", "getATR_raises"} : connect(how)
  /\ api_calls' = api_calls + 1
  /\ UNCHANGED <<pc, loop_vars, data_vars, exit_vars, end_vars, atr, card, ui_vars>>

\* conn.transmit(apdu); a channel that is not open answers by raising.
ApiTransmit ==
  /\ pc = "api"
  /\ api_calls < MaxApiCalls
  /\ \E apdu \in ApiApdus, resp \in Responses :
       /\ ~ch_open => resp.raises
       /\ transmit(apdu, "api", resp)
  /\ api_calls' = api_calls + 1
  /\ UNCHANGED <<pc, conn_vars, loop_vars, data_vars, exit_vars, end_vars,
                 atr, card, ui_vars>>

\* conn.disconnect()
ApiDisconnect ==
  /\ pc = "api"
  /\ api_calls < MaxApiCalls
  /\ disconnect
  /\ api_calls' = api_calls + 1
  /\ UNCHANGED <<pc, conn_vars, loop_vars, data_vars, exit_vars, end_vars,
                 atr, card, ui_vars>>

NextApi ==
  \/ ApiConnect
  \/ ApiTransmit
  \/ ApiDisconnect

SpecApi == InitApi /\ [][NextApi]_vars

\* ------------------------------------------------------------ properties
\* What the card's answers were, read off the channel: the status word is a
\* failure (neither 90 00 nor 61 n), or anything but 90 00.
IsFailureStatus(w) == w # NoStatus /\ w # <<144, 0>> /\ w[1] # 97
IsNotSuccess(w) == w # NoStatus /\ w # <<144, 0>>

\* The command or the continuation of a field read was answered with a
\* failing status word.
FieldReadFailed ==
  \/ ch_last_kind = "field" /\ IsFailureStatus(ch_last_sw)
  \/ ch_last_kind = "field_gr" /\ IsNotSuccess(ch_last_sw)

\* The same of a photo segment read.
PhotoSegmentFailed ==
  \/ ch_last_kind = "photo" /\ IsFailureStatus(ch_last_sw)
  \/ ch_last_kind = "photo_gr" /\ IsNotSuccess(ch_last_sw)

\* The payloads of the card's photo segments 1..n, in order.
RECURSIVE SegmentsUpTo(_, _)
SegmentsUpTo(c, n) ==
  IF n = 0 THEN <<>> ELSE SegmentsUpTo(c, n - 1) \o PhotoPayload(c, n)

\* The number of bytes in the card's photo segments 1..n.
RECURSIVE BytesUpTo(_, _)
BytesUpTo(c, n) == IF n = 0 THEN 0 ELSE BytesUpTo(c, n - 1) + SegLen(c, n)

\* C1: in every run of read_card in which connect() succeeded, the channel's
\* disconnect is invoked exactly once, on every exit path: none while the
\* run is under way, one when it has ended.
C1_DisconnectExactlyOnce ==
  connected => ch_disconnects = (IF pc = "done" THEN 1 ELSE 0)

\* C1 witness: a run that connected and ended by an exception raised by the
\* transmission of a photo continuation, with one disconnect.
C1_Witness ==
  /\ pc = "done"
  /\ connected
  /\ outcome = OtherException
  /\ raised_at = "photo_gr"
  /\ ch_disconnects = 1

\* C2: when the command or the continuation of a field read is answered with
\* a failing status word, read_card raises SmartCardError, returns no record,
\* and the channel receives no further transmission.
C2_FieldFailureAborts ==
  /\ [](FieldReadFailed =>
          /\ pc \in {"finally", "done"}
          /\ pending = SmartCardError
          /\ returned = NoRecord
          /\ pc = "done" => outcome = SmartCardError)
  /\ [][FieldReadFailed => ch_tx' = ch_tx]_vars

\* C2 witness: the continuation of the fifth field is answered 61 10 and the
\* run has ended with SmartCardError and no record.
C2_Witness ==
  /\ pc = "done"
  /\ ch_last_kind = "field_gr"
  /\ ch_last_sw = <<97, 16>>
  /\ ch_cmd = commands[5].ins
  /\ outcome = SmartCardError
  /\ returned = NoRecord

\* C3: the select command's status word is handled three ways: on 90 00 the
\* next transmission is the first field command (no continuation); on 61 n
\* the next transmission is the continuation prefix + n, it is sent once, and
\* the run fails unless it is answered 90 00; on any other status the run
\* fails with SmartCardError and nothing more is transmitted.
C3_SelectThreeWays ==
  /\ [](/\ (ch_last_kind = "select" /\ ch_last_sw = <<144, 0>>)
             => pc = "field_cmd" /\ ch_tx = 1
        /\ (ch_last_kind = "select" /\ ch_last_sw[1] = 97)
             => pc = "select_gr" /\ ch_tx = 1
        /\ (ch_last_kind = "select" /\ IsFailureStatus(ch_last_sw))
             => pc \in {"finally", "done"} /\ pending = SmartCardError
        /\ ch_last_kind = "select_gr"
             => /\ ch_tx = 2
                /\ ch_cmd_sw[1] = 97
                /\ ch_last = get_response_apdu_prefix \o <<ch_cmd_sw[2]>>
        /\ (ch_last_kind = "select_gr" /\ ch_last_sw = <<144, 0>>)
             => pc = "field_cmd"
        /\ (ch_last_kind = "select_gr" /\ IsNotSuccess(ch_last_sw))
             => pc \in {"finally", "done"} /\ pending = SmartCardError)
  /\ [][(ch_tx' # ch_tx) =>
          /\ ch_last_kind = "select" =>
               IF ch_last_sw = <<144, 0>>
               THEN ch_last_kind' = "field" /\ ch_last' = commands[1].ins
               ELSE /\ ch_last_sw[1] = 97
                    /\ ch_last_kind' = "select_gr"
                    /\ ch_last' = get_response_apdu_prefix \o <<ch_last_sw[2]>>
          /\ ch_last_kind = "select_gr" =>
               /\ ch_last_sw = <<144, 0>>
               /\ ch_last_kind' = "field"
               /\ ch_last' = commands[1].ins]_vars

\* C3 witness: select was answered 61 10, its one continuation 90 00, and
\* the field reads are about to begin.
C3_Witness ==
  /\ pc = "field_cmd"
  /\ ch_last_kind = "select_gr"
  /\ ch_cmd_sw = <<97, 16>>
  /\ ch_last = get_response_apdu_prefix \o <<16>>
  /\ ch_last_sw = <<144, 0>>
  /\ ch_tx = 2

\* C4: once a photo segment command has been sent, read_card never fails
\* with a protocol error (SmartCardError); a failing photo segment ends in a
\* returned record, and when already the first segment fails (so that every
\* segment of the card fails) the returned record has no photo.
C4_PhotoFailureAbsorbed ==
  /\ ch_last_kind \in {"photo", "photo_gr"}
       => pending # SmartCardError /\ outcome # SmartCardError
  /\ PhotoSegmentFailed
       => /\ pc \in {"finally", "done"}
          /\ pending = "return"
          /\ pc = "done" => outcome = "returned" /\ returned = card_data
  /\ (PhotoSegmentFailed /\ first_fail = 1 /\ pc = "done")
       => returned["photo_bytes"] = NoPhoto

\* C4 witness: the first photo segment's command failed and read_card
\* returned a record with all nine fields and no photo.
C4_Witness ==
  /\ pc = "done"
  /\ ch_last_kind = "photo"
  /\ ch_last_sw = <<106, 130>>
  /\ first_fail = 1
  /\ outcome = "returned"
  /\ returned["photo_bytes"] = NoPhoto
  /\ returned["cid"] = thai2unicode(FieldPayload(card, 1))

\* C5: the photo of the returned record is the concatenation, in order, of
\* the continuation payloads of the segments before the first failing one (of
\* all 20 when none fails) when that is at least 1024 bytes, and None when it
\* is shorter.
C5_PhotoFromSegments ==
  outcome = "returned" =>
    LET n   == IF first_fail = 0 THEN 20 ELSE first_fail - 1
        buf == SegmentsUpTo(card, n)
    IN  returned["photo_bytes"] = (IF Len(buf) >= 1024 THEN buf ELSE NoPhoto)

\* C5 witness: segments 1-5 of 255 bytes succeed and segment 6 fails: the
\* photo is the 1275 bytes of the five segments.
C5_Witness ==
  /\ outcome = "returned"
  /\ card = 1
  /\ first_fail = 6
  /\ Len(returned["photo_bytes"]) = 1275
  /\ returned["photo_bytes"] = SegmentsUpTo(1, 5)

\* C6: in the generic continuation read the continuation command is the
\* prefix followed by the last byte of the command when the command was
\* answered 90 00, and by n when it was answered 61 n; when the command is
\* answered with any other status the read ends in an error and no
\* continuation is transmitted.
C6_ContinuationLength ==
  /\ [](/\ ch_last_kind \in {"field_gr", "photo_gr"}
             => /\ ch_cmd_sw = <<144, 0>> \/ ch_cmd_sw[1] = 97
                /\ ch_last = get_response_apdu_prefix \o
                     << IF ch_cmd_sw = <<144, 0>>
                        THEN ch_cmd[Len(ch_cmd)] ELSE ch_cmd_sw[2] >>
        /\ (ch_last_kind \in {"field", "photo"} /\ IsFailureStatus(ch_last_sw))
             => /\ pc \in {"finally", "done"}
                /\ ch_last_kind = "field" => pending = SmartCardError
                /\ ch_last_kind = "photo" => first_fail = ch_last[3])
  /\ [][(ch_last_kind \in {"field", "photo"} /\ IsFailureStatus(ch_last_sw))
          => ch_tx' = ch_tx]_vars

\* C6 witness: a photo segment command (length byte FF) answered 61 10 is
\* continued with length byte 10.
C6_Witness ==
  /\ ch_last_kind = "photo_gr"
  /\ ch_cmd_sw = <<97, 16>>
  /\ ch_cmd[Len(ch_cmd)] = 255
  /\ ch_last = get_response_apdu_prefix \o <<16>>

\* C7: the payload of a continuation is accepted exactly when the
\* continuation is answered 90 00: then it is stored (decoded, under the
\* field's label) or appended to the end of the photo buffer; with any other
\* status, 61 n included, the read ends in a protocol error and the payload
\* is neither stored, appended (the buffer keeps its length) nor returned.
C7_ContinuationMustSucceed ==
  /\ (ch_last_kind = "field_gr" /\ IsNotSuccess(ch_last_sw))
       => /\ pending = SmartCardError
          /\ card_data[commands[FieldIndexOf(ch_cmd)].label] = <<>>
          /\ returned = NoRecord
  /\ (ch_last_kind = "field_gr" /\ ch_last_sw = <<144, 0>>)
       => card_data[commands[FieldIndexOf(ch_cmd)].label]
            = thai2unicode(FieldPayload(card, FieldIndexOf(ch_cmd)))
  /\ (ch_last_kind = "photo_gr" /\ IsNotSuccess(ch_last_sw))
       => /\ pc \in {"finally", "done"}
          /\ first_fail = ch_cmd[3]
          /\ Len(photo_data) = BytesUpTo(card, ch_cmd[3] - 1)
  /\ (ch_last_kind = "photo_gr" /\ ch_last_sw = <<144, 0>>)
       => /\ Len(photo_data) = BytesUpTo(card, ch_cmd[3])
          /\ SubSeq(photo_data, BytesUpTo(card, ch_cmd[3] - 1) + 1,
                    Len(photo_data)) = PhotoPayload(card, ch_cmd[3])
  /\ (ch_last_kind = "select_gr" /\ IsNotSuccess(ch_last_sw))
       => pending = SmartCardError /\ card_data = NoRecord

\* C7 witness: the continuation of the first field is answered 61 10; its
\* payload (which decodes to a non-empty string) is not stored and the run
\* fails.
C7_Witness ==
  /\ ch_last_kind = "field_gr"
  /\ ch_last_sw = <<97, 16>>
  /\ ch_cmd = commands[1].ins
  /\ thai2unicode(FieldPayload(card, 1)) # <<>>
  /\ card_data["cid"] = <<>>
  /\ pending = SmartCardError

\* C8: after connect() the continuation prefix is 00 C0 00 01 if and only if
\* the ATR has at least two bytes and its first two are 3B 67; otherwise it
\* is 00 C0 00 00.
C8_PrefixFromATR ==
  connected =>
    get_response_apdu_prefix =
      (IF Len(atr) >= 2 /\ atr[1] = 59 /\ atr[2] = 103
       THEN <<0, 192, 0, 1>> ELSE <<0, 192, 0, 0>>)

\* C8 witness: a three-byte ATR that starts 3B 67 gives the prefix 00 C0 00 01.
C8_Witness ==
  /\ connected
  /\ atr = <<59, 103, 59>>
  /\ get_response_apdu_prefix = <<0, 192, 0, 1>>

\* C9: in a run of read_card nothing is transmitted before connect() has
\* completed and the 4-byte prefix is set, and every continuation command
\* is that prefix followed by one length byte.
C9_NoTransmitBeforePrefix ==
  /\ ch_tx > 0 =>
       /\ connected
       /\ ch_tx_unconnected = 0
       /\ get_response_apdu_prefix \in {<<0, 192, 0, 1>>, <<0, 192, 0, 0>>}
  /\ ch_last_kind \in ContinuationKinds =>
       /\ Len(ch_last) = 5
       /\ SubSeq(ch_last, 1, 4) = get_response_apdu_prefix

\* C9 witness: a continuation of five bytes has been sent.
C9_Witness ==
  /\ ch_last_kind = "field_gr"
  /\ Len(ch_last) = 5
  /\ connected

\* C10: transmit on a SmartCardConnection on which connect() has not run is
\* rejected and nothing reaches the channel: the channel never receives an
\* APDU from a connection that connect() has not completed on.
C10_UnconnectedTransmitRejected == ch_tx_unconnected = 0

\* C11: SmartCardConnection.disconnect is idempotent: however often it is
\* called, the channel's disconnect is invoked at most once.
C11_DisconnectIdempotent == ch_disconnects <= 1

\* C20: read_card invokes disconnect exactly when createConnection returned
\* a connection object, whether or not connect() then succeeded: never when
\* createConnection raised, once (when the run ends) otherwise, also on a
\* channel that connect() failed to open.
C20_DisconnectIffCreated ==
  /\ pc # "done" => ch_disconnects = 0
  /\ pc = "done" => ch_disconnects = (IF self_conn = "channel" THEN 1 ELSE 0)
  /\ (pc = "done" /\ raised_at = "start") => conn = None /\ ch_disconnects = 0

\* C20 witness: connect() raised on the channel createConnection returned;
\* the channel was never opened and was disconnected once.
C20_Witness ==
  /\ pc = "done"
  /\ raised_at = "connect"
  /\ self_conn = "channel"
  /\ ~connected
  /\ ~ch_open
  /\ ch_tx = 0
  /\ outcome = OtherException
  /\ ch_disconnects = 1

\* A GET RESPONSE (continuation) APDU: 00 C0 ...; a read command: 80 B0 ...
IsGetResponseApdu(a) == Len(a) >= 2 /\ a[1] = 0 /\ a[2] = 192
IsReadApdu(a) == Len(a) >= 2 /\ a[1] = 128 /\ a[2] = 176

\* C13: transmissions happen one at a time, and a continuation is always the
\* transmission right after the command it continues: it follows a command
\* (never another continuation) that was answered 90 00 or 61 n, and after a
\* field or photo-segment command nothing but its continuation is sent.
C13_ContinuationFollowsCommand ==
  [][(ch_tx' # ch_tx) =>
       /\ ch_tx' = ch_tx + 1
       /\ IsGetResponseApdu(ch_last') =>
            /\ ch_tx > 0
            /\ ~IsGetResponseApdu(ch_last)
            /\ ch_last = ch_cmd
            /\ ch_cmd' = ch_cmd
            /\ ch_last_sw = <<144, 0>> \/ ch_last_sw[1] = 97
       /\ IsReadApdu(ch_last) => IsGetResponseApdu(ch_last')
       /\ (ch_last = <<0, 164, 4, 0, 8, 160, 0, 0, 0, 84, 72, 0, 1>>
             /\ ch_last_sw # <<144, 0>>) => IsGetResponseApdu(ch_last')]_vars

\* C13 witness: the continuation of the third field command has just been
\* sent, right after that command.
C13_Witness ==
  /\ ch_last_kind = "field_gr"
  /\ IsGetResponseApdu(ch_last)
  /\ ch_cmd = <<128, 176, 0, 117, 2, 0, 100>>
  /\ ch_tx = 8

\* C14: the photo loop sends the command 80 B0 i (7C - i) 02 00 FF for
\* segment i, for i = 1, 2, ... in this order, each at most once and none
\* beyond 20; the command of segment i + 1 is sent only after the
\* continuation of segment i was answered 90 00, so none is sent after the
\* first failing segment.
C14_SegmentOrder ==
  /\ [](ch_last_kind = "photo" =>
          \E i \in 1..20 : ch_last = <<128, 176, i, 124 - i, 2, 0, 255>>)
  /\ [][(ch_tx' # ch_tx /\ ch_last_kind' = "photo") =>
          IF ch_last_kind \in {"photo", "photo_gr"}
          THEN /\ ch_last_kind = "photo_gr"
               /\ ch_last_sw = <<144, 0>>
               /\ first_fail = 0
               /\ ch_last'[3] = ch_cmd[3] + 1
          ELSE ch_last'[3] = 1]_vars
  /\ [][(first_fail # 0 /\ ch_tx' # ch_tx) => ~IsReadApdu(ch_last')]_vars

\* C14 witness: the command of segment 20 has been sent.
C14_Witness ==
  /\ ch_last_kind = "photo"
  /\ ch_last = <<128, 176, 20, 104, 2, 0, 255>>
  /\ first_fail = 0

\* C19: provided every transmission returns or raises, every run of
\* read_card comes to its end, and it has then made at most 60
\* transmissions: 1 selection, 1 continuation of it, 2 for each of the 9
\* fields and 2 for each of the 20 photo segments.
C19_Terminates ==
  /\ <>(pc = "done")
  /\ [](ch_tx <= 1 + 1 + 2 * 9 + 2 * 20)

\* C19 witness: a run that ended after exactly 60 transmissions.
C19_Witness ==
  /\ pc = "done"
  /\ outcome = "returned"
  /\ ch_tx = 60

\* The field catalog as the specification gives it: label, P1 P2, Le.
FieldTable ==
  << <<"cid",         0,   4,  13>>,
     <<"th_fullname", 0,  17, 100>>,
     <<"en_fullname", 0, 117, 100>>,
     <<"dob",         0, 217,   8>>,
     <<"gender",      0, 225,   1>>,
     <<"issuer",      0, 246, 100>>,
     <<"issue_date",  1, 103,   8>>,
     <<"expire_date", 1, 111,   8>>,
     <<"address",    21, 121, 100>> >>

FieldTableApdu(k) ==
  <<128, 176, FieldTable[k][2], FieldTable[k][3], 2, 0, FieldTable[k][4]>>

\* C17: on a returned record each of the nine text fields holds the decoded
\* payload the card gave to the continuation of that field's own command;
\* the field commands are sent in catalog order, the first after the
\* selection and each next one after the previous field's continuation was
\* answered 90 00, and the first photo command after the last field's.
C17_FieldsFromOwnCommand ==
  /\ [](outcome = "returned" =>
          \A k \in 1..9 :
            returned[FieldTable[k][1]]
              = thai2unicode(FieldAnswer(card, FieldTableApdu(k))))
  /\ [][(ch_tx' # ch_tx /\ IsReadApdu(ch_last')) =>
          \/ /\ ch_last' = FieldTableApdu(1)
             /\ ch_cmd = <<0, 164, 4, 0, 8, 160, 0, 0, 0, 84, 72, 0, 1>>
          \/ /\ ch_last_kind = "field_gr"
             /\ ch_last_sw = <<144, 0>>
             /\ \E k \in 1..8 : /\ ch_cmd = FieldTableApdu(k)
                                /\ ch_last' = FieldTableApdu(k + 1)
          \/ /\ ch_last_kind = "field_gr"
             /\ ch_last_sw = <<144, 0>>
             /\ ch_cmd = FieldTableApdu(9)
             /\ ch_last' = <<128, 176, 1, 123, 2, 0, 255>>
          \/ /\ ch_last_kind = "photo_gr"
             /\ ch_last'[3] > 1
             /\ ch_last_kind' = "photo"]_vars

\* C17 witness: a returned record whose two name fields hold different
\* texts, each the decoded payload of its own command.
C17_Witness ==
  /\ outcome = "returned"
  /\ returned["th_fullname"] # returned["en_fullname"]
  /\ returned["th_fullname"]
       = thai2unicode(FieldAnswer(card, <<128, 176, 0, 17, 2, 0, 100>>))
  /\ returned["en_fullname"] # <<>>

\* C16: a run of ReaderWorker.run emits exactly one signal, when read_card
\* has ended and none before: finished with the record read_card returned;
\* error "Smart Card Error: ..." with the failing status word for a
\* SmartCardError; error "An unexpected error occurred: ..." for any other
\* exception.
C16_OneTerminalSignal ==
  /\ pc # "emitted" => signals = <<>>
  /\ pc = "emitted" =>
       /\ Len(signals) = 1
       /\ outcome = "returned" =>
            /\ signals[1].signal = "finished"
            /\ signals[1].data = returned
            /\ returned # NoRecord
       /\ outcome = "SmartCardError" =>
            /\ signals[1].signal = "error"
            /\ signals[1].text = "Smart Card Error: "
            /\ signals[1].detail = ch_last_sw
            /\ signals[1].detail \in StatusWords \ {<<144, 0>>}
       /\ outcome \notin {"returned", "SmartCardError"} =>
            /\ signals[1].signal = "error"
            /\ signals[1].text = "An unexpected error occurred: "

\* C16 witness: a field command answered 6A 82 ended the read, and the
\* worker emitted the one error signal that carries this status word.
C16_Witness ==
  /\ pc = "emitted"
  /\ outcome = "SmartCardError"
  /\ raised_at = "field_cmd"
  /\ signals = <<Signal("error", "Smart Card Error: ", <<106, 130>>, NoRecord)>>

\* The reader the specification names: the first whose name contains a known
\* model name, else the first of the list.
IsKnownModel(r) ==
  \E t \in {<<84, 82, 75, 50, 55, 48, 48, 82, 66>>, <<73, 68, 69, 78, 84, 73, 86>>,
            <<83, 67, 82>>, <<67, 67, 73, 68>>} :
    \E k \in 1..Len(r) :
      /\ k + Len(t) - 1 <= Len(r)
      /\ \A j \in 1..Len(t) :
           (IF r[k + j - 1] \in 97..122 THEN r[k + j - 1] - 32 ELSE r[k + j - 1]) = t[j]

\* C18: once start_scan has run, with no reader listed the message is the
\* 'no readers found' one and nothing was sent to a card; with readers
\* listed, the first reader of a known model, or else the first reader, is
\* selected and exactly one background read has been started.
C18_ScanSelectsReader ==
  (message # "" \/ threads > 0) =>
    IF readers = <<>>
    THEN /\ message = "No smartcard readers found. Please plug in the reader."
         /\ threads = 0
         /\ ch_tx = 0
    ELSE /\ threads = 1
         /\ \E k \in 1..Len(readers) :
              /\ selected_reader = readers[k]
              /\ \/ /\ IsKnownModel(readers[k])
                    /\ \A h \in 1..(k - 1) : ~IsKnownModel(readers[h])
                 \/ /\ k = 1
                    /\ \A h \in 1..Len(readers) : ~IsKnownModel(readers[h])

\* C12: format_date returns its argument unchanged unless it is exactly 8
\* digits (so every string whose length is not 8 comes back unchanged); for
\* 8 digits YYYYMMDD it returns DD/MM/YYYY made of the same digits.
C12_FormatDate ==
  pc = "formatted" =>
    IF Len(date_str) = 8 /\ \A k \in 1..8 : date_str[k] \in 48..57
    THEN formatted = <<date_str[7], date_str[8], 47, date_str[5], date_str[6], 47,
                       date_str[1], date_str[2], date_str[3], date_str[4]>>
    ELSE formatted = date_str

\* C15: two runs of read_card against two channels that follow the same
\* script (same ATR, same status words and payloads) end alike: both return
\* and the two records are equal, or both raise, the same exception.
C15_TwoRunsAgree ==
  (run_no = 2 /\ pc = "done") =>
    /\ outcome = first.outcome
    /\ returned = first.returned
    /\ (outcome = "returned") = (returned # NoRecord)

\* C15 witness: both runs returned a record with a photo, after a script in
\* which the 31st transmission (a photo segment's) failed.
C15_Witness ==
  /\ run_no = 2
  /\ pc = "done"
  /\ script.fail_at = 31
  /\ outcome = "returned"
  /\ first.outcome = "returned"
  /\ returned["photo_bytes"] # NoPhoto
  /\ returned = first.returned

====
